---- MODULE Spec2Model ----
(***************************************************************************)
(* A model of the k-means engine of c_means (src/k_means.c): the two       *)
(* kernel initialisers, the distance function and the assign / update /    *)
(* movement loop of k_means.                                               *)
(*                                                                         *)
(* Doubles are modelled by integers on a grid: a coordinate is a multiple  *)
(* of Scale, so that every mean of at most MaxN rows is again an integer   *)
(* and the division of the update step is exact, as it is for such values  *)
(* in IEEE arithmetic.  A distance is a fixed-point number with Prec units *)
(* per coordinate unit; Prec is large enough for sqrt to be strictly       *)
(* increasing on the sums of squares that occur.  The three non-finite     *)
(* doubles are the integers PInf, NInf and NaN beyond every finite value.  *)
(***************************************************************************)
EXTENDS Integers, Sequences, FiniteSets

\* ---------------------------------------------------------------- bounds
\* the most rows of a dataset
MaxN == 3

\* the most values (rows times columns) of a dataset
MaxCells == 4

\* the dimensions m of the datasets explored
Dims == {1, 2}

RECURSIVE Fact(_)
Fact(x) == IF x <= 1 THEN 1 ELSE x * Fact(x - 1)

\* the coordinate grid: multiples of every follower count 1..MaxN
Scale == Fact(MaxN)

\* the finite coordinates of the datasets explored
Coords == {0, Scale, 3 * Scale}

MaxCoord == 3 * Scale

MaxM == CHOOSE d \in Dims : \A e \in Dims : e <= d

\* fixed-point units of a distance per coordinate unit
Prec == 2 * MaxCoord * MaxM + 1

MaxFinite == Prec * Prec * Prec

\* ------------------------------------------------------- double arithmetic
PInf == MaxFinite + 1

NInf == 0 - PInf

NaN == PInf + 1

IsNaN(x) == x = NaN

IsFinite(x) == x # NaN /\ x # PInf /\ x # NInf

\* a < b on doubles: false as soon as one side is not a number
FLt(a, b) == ~IsNaN(a) /\ ~IsNaN(b) /\ a < b

\* a >= b on doubles
FGe(a, b) == ~IsNaN(a) /\ ~IsNaN(b) /\ a >= b

FAdd(a, b) ==
    IF IsNaN(a) \/ IsNaN(b) THEN NaN
    ELSE IF (a = PInf /\ b = NInf) \/ (a = NInf /\ b = PInf) THEN NaN
    ELSE IF a = PInf \/ b = PInf THEN PInf
    ELSE IF a = NInf \/ b = NInf THEN NInf
    ELSE a + b

FNeg(a) == IF IsNaN(a) THEN NaN ELSE 0 - a

FSub(a, b) == FAdd(a, FNeg(b))

FSq(a) == IF IsNaN(a) THEN NaN ELSE IF IsFinite(a) THEN a * a ELSE PInf

\* a / c for a follower count c > 0
FDiv(a, c) == IF IsFinite(a) THEN a \div c ELSE a

RECURSIVE IsqrtBetween(_, _, _)
\* the largest r in lo..hi with r * r <= x
IsqrtBetween(x, lo, hi) ==
    IF lo >= hi THEN lo
    ELSE LET mid == (lo + hi + 1) \div 2
         IN  IF mid * mid <= x THEN IsqrtBetween(x, mid, hi)
             ELSE IsqrtBetween(x, lo, mid - 1)

\* sqrt of a sum of squares, in distance units
FSqrt(s) ==
    IF IsNaN(s) \/ s < 0 THEN NaN
    ELSE IF s = PInf THEN PInf
    ELSE IsqrtBetween(s * Prec * Prec, 0, Prec * 2 * MaxCoord * MaxM)

\* the smallest positive distance of the grid stands for DBL_EPSILON
DBL_EPSILON == 1

INFINITY == PInf


\* ------------------------------------------------------------------ state
VARIABLES
    pc,                    \* where the run is
    k, n, m,               \* the arguments of k_means
    generate_kernels,      \* the strategy selector
    data_rows,             \* the caller's dataset, n rows of m doubles
    data_rows_copy,        \* generate_mean_kernels: the private copy
    gen_i,                 \* generate_mean_kernels: the dimension being sorted
    pick_i,                \* pick_random_kernels: the kernel being drawn
    previous,              \* pick_random_kernels: the rows accepted so far
    kernels,
    movement,
    iterations,
    ri,                    \* the row the assignment step is at
    kernel_followers,
    kernel_follower_count,
    kernel_follower_sum,
    prev_means,
    lines,                 \* main: the lines of standard input
    line_i,                \* main: the number of lines read so far
    fail_on_errors,        \* main: the flag -e
    columns,               \* main: the selected column indices
    data_row_count,
    data_row_cap,
    printed,               \* main: the cluster ids written to standard output
    call_pc,               \* two invocations: where each one is
    passes,                \* two invocations: the passes each one has begun
    globals,               \* the four pointers at process scope
    heap,                  \* the blocks malloc has handed out
    returned               \* the pointer each invocation returned

\* the state of main around the call of k_means
main_vars == <<lines, line_i, fail_on_errors, columns, data_row_count,
               data_row_cap, printed>>

\* the state of two invocations of k_means running side by side
calls_vars == <<call_pc, passes, globals, heap, returned>>

\* the state of one invocation, its working arrays seen by their contents
engine_vars == <<pc, k, n, m, generate_kernels, data_rows, data_rows_copy,
                 gen_i, pick_i, previous, kernels, movement, iterations, ri,
                 kernel_followers, kernel_follower_count,
                 kernel_follower_sum, prev_means>>

vars == <<pc, k, n, m, generate_kernels, data_rows, data_rows_copy, gen_i,
          pick_i, previous, kernels, movement, iterations, ri,
          kernel_followers, kernel_follower_count, kernel_follower_sum,
          prev_means, lines, line_i, fail_on_errors, columns, data_row_count,
          data_row_cap, printed, call_pc, passes, globals, heap, returned>>

\* the invocations of k_means followed side by side
Invocations == {1, 2}

NULL == << >>

\* the arrays k_means keeps behind pointers at process scope
Arrays == {"kernel_followers", "kernel_follower_count",
           "kernel_follower_sum", "prev_means"}

\* the blocks of memory: the one malloc returns to invocation c for array a
\* is <<c, a>> (the rows behind kernel_follower_sum and prev_means are
\* taken together with the array of pointers to them)
Blocks == Invocations \X Arrays

\* no second invocation is followed
SingleCall ==
    /\ call_pc = [c \in Invocations |-> "unused"]
    /\ passes = [c \in Invocations |-> 0]
    /\ globals = [a \in Arrays |-> NULL]
    /\ heap = [b \in Blocks |-> [status |-> "unallocated", holds |-> 0]]
    /\ returned = [c \in Invocations |-> NULL]

Rows == 0 .. (n - 1)

Kernels == 0 .. (k - 1)

Cols == 0 .. (m - 1)

\* memory that is not allocated (or was freed)
Unallocated == << >>

\* a size_t slot of a malloc'ed array that was never written
Indeterminate == 0 - 1

\* the values a double read from outside the dataset may take here: a
\* finite value that is no coordinate of the dataset, or a non-finite one
GarbageVals == {2 * Scale, PInf}

\* what a read of data_rows[n] may find: a row of m such doubles
GarbageRows == {[c \in Cols |-> g] : g \in GarbageVals}

\* the finite rows explored
Points(mm) == [0 .. (mm - 1) -> Coords]

\* the datasets explored: finite rows, and the same with the first value of
\* the last row replaced by a non-finite double
DataSets(nn, mm) ==
    LET finite == [0 .. (nn - 1) -> Points(mm)]
    IN  finite \cup
        {[rows EXCEPT ![nn - 1][0] = v] : rows \in finite, v \in {PInf, NaN}}

DataFinite == \A r \in Rows : \A c \in Cols : IsFinite(data_rows[r][c])

\* main calls k_means: any dataset explored, either strategy, and a k of at
\* most MaxN that may exceed n by one
Init ==
    /\ pc = "call"
    /\ n \in 1 .. MaxN
    /\ m \in {d \in Dims : n * d <= MaxCells}
    /\ k \in {kk \in 1 .. MaxN : kk <= n + 1}
    /\ generate_kernels \in BOOLEAN
    /\ data_rows \in DataSets(n, m)
    /\ data_rows_copy = Unallocated
    /\ gen_i = 0
    /\ pick_i = 0
    /\ previous = Unallocated
    /\ kernels = Unallocated
    /\ movement = 0
    /\ iterations = 0
    /\ ri = 0
    /\ kernel_followers = Unallocated
    /\ kernel_follower_count = Unallocated
    /\ kernel_follower_sum = Unallocated
    /\ prev_means = Unallocated
    /\ lines = << >>
    /\ line_i = 0
    /\ fail_on_errors = FALSE
    /\ columns = << >>
    /\ data_row_count = n
    /\ data_row_cap = n
    /\ printed = << >>
    /\ SingleCall


\* ------------------------------------------------------------- distf64v
RECURSIVE SumSquares(_, _, _)
\* the sum of the first i squared differences, added in index order
SumSquares(p, q, i) ==
    IF i = 0 THEN 0
    ELSE FAdd(SumSquares(p, q, i - 1), FSq(FSub(p[i - 1], q[i - 1])))

\* failed: one of the two sanity checks called failwith
distf64v(p, q, mm) ==
    LET sum == SumSquares(p, q, mm)
        out == FSqrt(sum)
    IN  [failed |-> FLt(sum, 0) \/ IsNaN(out), out |-> out]

\* failwith / failwithf end in fail(): the process exits
Fail ==
    /\ pc' = "aborted"
    /\ UNCHANGED <<k, n, m, generate_kernels, data_rows, data_rows_copy, gen_i,
                   pick_i, previous, kernels, movement, iterations, ri,
                   kernel_followers, kernel_follower_count,
                   kernel_follower_sum, prev_means>>

\* ---------------------------------------------------- the two initialisers
\* rand() returns one of 0 .. RAND_MAX
RAND_MAX == MaxN + 1

\* row = r * n, with r = rand() / RAND_MAX, truncated to size_t
DrawRow(rnd) == (rnd * n) \div RAND_MAX

\* k_means is entered and calls the initialiser the caller selected
KMeansCall ==
    /\ pc = "call"
    /\ UNCHANGED <<main_vars, calls_vars>>
    /\ IF generate_kernels
       THEN /\ pc' = "generate"
            /\ data_rows_copy' = [r \in Rows |-> [c \in Cols |-> data_rows[r][c]]]
            /\ kernels' = [j \in Kernels |-> << >>]
            /\ gen_i' = 0
            /\ UNCHANGED <<pick_i, previous>>
       ELSE /\ pc' = "pick"
            /\ kernels' = << >>
            /\ previous' = << >>
            /\ pick_i' = 0
            /\ UNCHANGED <<data_rows_copy, gen_i>>
    /\ UNCHANGED <<k, n, m, generate_kernels, data_rows, movement, iterations,
                   ri, kernel_followers, kernel_follower_count,
                   kernel_follower_sum, prev_means>>

\* one pass of the while (true) loop of pick_random_kernels
PickDraw ==
    /\ pc = "pick"
    /\ UNCHANGED <<main_vars, calls_vars>>
    /\ \E rnd \in 0 .. RAND_MAX :
         LET row == DrawRow(rnd)
             already_seen == \E j \in 0 .. (pick_i - 1) : previous[j] = row
             last == pick_i + 1 = k
         IN  IF already_seen
             THEN UNCHANGED <<pc, pick_i, previous, kernels>>
             ELSE IF row < n
             THEN /\ kernels' = [j \in 0 .. pick_i |->
                                   IF j = pick_i
                                   THEN [c \in Cols |-> data_rows[row][c]]
                                   ELSE kernels[j]]
                  /\ previous' = IF last THEN Unallocated
                                 ELSE [j \in 0 .. pick_i |->
                                         IF j = pick_i THEN row ELSE previous[j]]
                  /\ pick_i' = pick_i + 1
                  /\ pc' = IF last THEN "init" ELSE "pick"
             \* data_rows[n] lies outside the dataset: the read is undefined
             ELSE \/ /\ pc' = "crashed"
                     /\ UNCHANGED <<pick_i, previous, kernels>>
                  \/ \E g \in GarbageRows :
                       /\ kernels' = [j \in 0 .. pick_i |->
                                        IF j = pick_i THEN g ELSE kernels[j]]
                       /\ previous' = IF last THEN Unallocated
                                      ELSE [j \in 0 .. pick_i |->
                                              IF j = pick_i THEN row
                                              ELSE previous[j]]
                       /\ pick_i' = pick_i + 1
                       /\ pc' = IF last THEN "init" ELSE "pick"
    /\ UNCHANGED <<k, n, m, generate_kernels, data_rows, data_rows_copy, gen_i,
                   movement, iterations, ri, kernel_followers,
                   kernel_follower_count, kernel_follower_sum, prev_means>>

\* the comparator with its two results exchanged
cmpf64v_Descending(a, b, d) ==
    IF FLt(b[d], a[d]) THEN 0 - 1 ELSE IF FLt(a[d], b[d]) THEN 1 ELSE 0

\* the comparator of the sort: the order of two rows in dimension d
cmpf64v(a, b, d) ==
    IF FLt(b[d], a[d]) THEN 1 ELSE IF FLt(a[d], b[d]) THEN 0 - 1 ELSE 0

RowOrders(S) == {p \in [S -> S] : \A a, b \in S : a # b => p[a] # p[b]}

\* the orders qsort_r may leave the rows in: qsort is not stable, so any
\* order the comparator accepts; with a NaN in the column the comparator is
\* no order at all and any permutation may come out
SortOutcomes(rows, d) ==
    IF \E r \in Rows : IsNaN(rows[r][d])
    THEN RowOrders(Rows)
    ELSE {p \in RowOrders(Rows) :
            \A a, b \in Rows : a < b => cmpf64v(rows[p[a]], rows[p[b]], d) <= 0}

\* pivots[i] = (size_t)(2i / 2k * n)
Pivot(i) == ((2 * i) * n) \div (2 * k)

\* the per-dimension pass, sorting the caller's rows instead of a copy
GenerateSortDim_InPlace ==
    /\ pc = "generate"
    /\ UNCHANGED <<main_vars, calls_vars>>
    /\ \E p \in SortOutcomes(data_rows, gen_i) :
         LET sorted == [a \in Rows |-> data_rows[p[a]]]
             last == gen_i + 1 = m
         IN  /\ kernels' = [j \in Kernels |->
                              [c \in 0 .. gen_i |->
                                 IF c = gen_i THEN sorted[Pivot(j)][gen_i]
                                 ELSE kernels[j][c]]]
             /\ data_rows' = sorted
             /\ data_rows_copy' = IF last THEN Unallocated ELSE data_rows_copy
             /\ gen_i' = gen_i + 1
             /\ pc' = IF last THEN "init" ELSE "generate"
    /\ UNCHANGED <<k, n, m, generate_kernels, pick_i, previous,
                   movement, iterations, ri, kernel_followers,
                   kernel_follower_count, kernel_follower_sum, prev_means>>

\* one pass of the per-dimension loop of generate_mean_kernels
GenerateSortDim ==
    /\ pc = "generate"
    /\ UNCHANGED <<main_vars, calls_vars>>
    /\ \E p \in SortOutcomes(data_rows_copy, gen_i) :
         LET sorted == [a \in Rows |-> data_rows_copy[p[a]]]
             last == gen_i + 1 = m
         IN  /\ kernels' = [j \in Kernels |->
                              [c \in 0 .. gen_i |->
                                 IF c = gen_i THEN sorted[Pivot(j)][gen_i]
                                 ELSE kernels[j][c]]]
             /\ data_rows_copy' = IF last THEN Unallocated ELSE sorted
             /\ gen_i' = gen_i + 1
             /\ pc' = IF last THEN "init" ELSE "generate"
    /\ UNCHANGED <<k, n, m, generate_kernels, data_rows, pick_i, previous,
                   movement, iterations, ri, kernel_followers,
                   kernel_follower_count, kernel_follower_sum, prev_means>>

\* ------------------------------------------------------------ the engine
\* the initialiser returned: the working arrays are allocated, not written
KMeansInit ==
    /\ pc = "init"
    /\ UNCHANGED <<main_vars, calls_vars>>
    /\ movement' = INFINITY
    /\ kernel_followers' = [r \in Rows |-> Indeterminate]
    /\ kernel_follower_count' = [ki \in Kernels |-> Indeterminate]
    /\ kernel_follower_sum' = [ki \in Kernels |-> [vi \in Cols |-> Indeterminate]]
    /\ prev_means' = [ki \in Kernels |-> [vi \in Cols |-> Indeterminate]]
    /\ iterations' = 0
    /\ pc' = "loop"
    /\ UNCHANGED <<k, n, m, generate_kernels, data_rows, data_rows_copy, gen_i,
                   pick_i, previous, kernels, ri>>

\* the loop condition, comparing the movement with zero
LoopCondition_NonNegative == FGe(movement, 0) /\ iterations < 2500

\* the loop condition of k_means
LoopCondition == FGe(movement, DBL_EPSILON) /\ iterations < 2500

\* the loop is entered without resetting the accumulators
LoopEnter_NoReset ==
    /\ pc = "loop"
    /\ UNCHANGED <<main_vars, calls_vars>>
    /\ LoopCondition
    /\ prev_means' = [ki \in Kernels |-> [vi \in Cols |-> kernels[ki][vi]]]
    /\ kernel_follower_count' =
           IF IsFinite(movement) THEN kernel_follower_count
           ELSE [ki \in Kernels |-> 0]
    /\ kernel_follower_sum' =
           IF IsFinite(movement) THEN kernel_follower_sum
           ELSE [ki \in Kernels |-> [vi \in Cols |-> 0]]
    /\ ri' = 0
    /\ pc' = "assign"
    /\ UNCHANGED <<k, n, m, generate_kernels, data_rows, data_rows_copy, gen_i,
                   pick_i, previous, kernels, movement, iterations,
                   kernel_followers>>

\* the loop is entered: the snapshot is taken and the accumulators are reset
LoopEnter ==
    /\ pc = "loop"
    /\ UNCHANGED <<main_vars, calls_vars>>
    /\ LoopCondition
    /\ prev_means' = [ki \in Kernels |-> [vi \in Cols |-> kernels[ki][vi]]]
    /\ kernel_follower_count' = [ki \in Kernels |-> 0]
    /\ kernel_follower_sum' = [ki \in Kernels |-> [vi \in Cols |-> 0]]
    /\ ri' = 0
    /\ pc' = "assign"
    /\ UNCHANGED <<k, n, m, generate_kernels, data_rows, data_rows_copy, gen_i,
                   pick_i, previous, kernels, movement, iterations,
                   kernel_followers>>

RECURSIVE ScanKernels_OneBased(_, _, _, _)
\* the scan, recording the closest kernel by its one-based position
ScanKernels_OneBased(row, ki, closest_distance, closest_kernel) ==
    IF ki = k THEN [failed |-> FALSE, closest_kernel |-> closest_kernel]
    ELSE LET distance == distf64v(row, kernels[ki], m)
         IN  IF distance.failed
             THEN [failed |-> TRUE, closest_kernel |-> closest_kernel]
             ELSE IF FLt(distance.out, closest_distance)
             THEN ScanKernels_OneBased(row, ki + 1, distance.out, ki + 1)
             ELSE ScanKernels_OneBased(row, ki + 1, closest_distance,
                                       closest_kernel)

RECURSIVE ScanKernels_LastWins(_, _, _, _)
\* the scan, comparing with <= : among equally close kernels the last wins
ScanKernels_LastWins(row, ki, closest_distance, closest_kernel) ==
    IF ki = k THEN [failed |-> FALSE, closest_kernel |-> closest_kernel]
    ELSE LET distance == distf64v(row, kernels[ki], m)
         IN  IF distance.failed
             THEN [failed |-> TRUE, closest_kernel |-> closest_kernel]
             ELSE IF ~FLt(closest_distance, distance.out)
             THEN ScanKernels_LastWins(row, ki + 1, distance.out, ki)
             ELSE ScanKernels_LastWins(row, ki + 1, closest_distance,
                                       closest_kernel)

RECURSIVE ScanKernels(_, _, _, _)
\* the scan of the kernels ki .. k-1 for the one closest to row
ScanKernels(row, ki, closest_distance, closest_kernel) ==
    IF ki = k THEN [failed |-> FALSE, closest_kernel |-> closest_kernel]
    ELSE LET distance == distf64v(row, kernels[ki], m)
         IN  IF distance.failed
             THEN [failed |-> TRUE, closest_kernel |-> closest_kernel]
             ELSE IF FLt(distance.out, closest_distance)
             THEN ScanKernels(row, ki + 1, distance.out, ki)
             ELSE ScanKernels(row, ki + 1, closest_distance, closest_kernel)

\* row ri is assigned to a kernel
AssignRow ==
    /\ pc = "assign"
    /\ UNCHANGED <<main_vars, calls_vars>>
    /\ LET row == data_rows[ri]
           scan == ScanKernels(row, 0, INFINITY, 0)
           closest_kernel == scan.closest_kernel
       IN  IF scan.failed THEN Fail
           ELSE /\ kernel_followers' =
                     [kernel_followers EXCEPT ![ri] = closest_kernel]
                /\ kernel_follower_count' =
                     [kernel_follower_count EXCEPT ![closest_kernel] = @ + 1]
                /\ kernel_follower_sum' =
                     [kernel_follower_sum EXCEPT ![closest_kernel] =
                        [vi \in Cols |-> FAdd(@[vi], row[vi])]]
                /\ ri' = ri + 1
                /\ pc' = IF ri + 1 = n THEN "update" ELSE "assign"
                /\ UNCHANGED <<k, n, m, generate_kernels, data_rows,
                               data_rows_copy, gen_i, pick_i, previous,
                               kernels, movement, iterations, prev_means>>

\* the update step, writing zero to a kernel without followers
UpdatedKernel_ZeroWhenEmpty(ki) ==
    [vi \in Cols |->
       IF kernel_follower_count[ki] <= 0 THEN 0
       ELSE FDiv(kernel_follower_sum[ki][vi], kernel_follower_count[ki])]

\* the update step, dividing by the number of rows
UpdatedKernel_DividedByRows(ki) ==
    [vi \in Cols |->
       IF kernel_follower_count[ki] <= 0 THEN kernels[ki][vi]
       ELSE FDiv(kernel_follower_sum[ki][vi], n)]

\* the update step, leaving the sum of the followers undivided
UpdatedKernel_Undivided(ki) ==
    [vi \in Cols |->
       IF kernel_follower_count[ki] <= 0 THEN kernels[ki][vi]
       ELSE kernel_follower_sum[ki][vi]]

\* the kernel ki after the update step
UpdatedKernel(ki) ==
    [vi \in Cols |->
       IF kernel_follower_count[ki] <= 0 THEN kernels[ki][vi]
       ELSE FDiv(kernel_follower_sum[ki][vi], kernel_follower_count[ki])]

\* the kernels move to the means of their followers
Update ==
    /\ pc = "update"
    /\ UNCHANGED <<main_vars, calls_vars>>
    /\ kernels' = [ki \in Kernels |-> UpdatedKernel(ki)]
    /\ pc' = "movement"
    /\ UNCHANGED <<k, n, m, generate_kernels, data_rows, data_rows_copy, gen_i,
                   pick_i, previous, movement, iterations, ri,
                   kernel_followers, kernel_follower_count,
                   kernel_follower_sum, prev_means>>

RECURSIVE MovementScan(_, _)
\* the movement of the kernels ki .. k-1 added to mv
MovementScan(ki, mv) ==
    IF ki = k THEN [failed |-> FALSE, movement |-> mv]
    ELSE LET current_movement == distf64v(prev_means[ki], kernels[ki], m)
             next == FAdd(mv, current_movement.out)
         IN  IF current_movement.failed \/ IsNaN(next)
             THEN [failed |-> TRUE, movement |-> mv]
             ELSE MovementScan(ki + 1, next)

\* the movement of this pass is measured and the loop condition is next
UpdateMovement ==
    /\ pc = "movement"
    /\ UNCHANGED <<main_vars, calls_vars>>
    /\ LET scan == MovementScan(0, 0)
       IN  IF scan.failed THEN Fail
           ELSE /\ movement' = scan.movement
                /\ pc' = "loop"
                /\ UNCHANGED <<k, n, m, generate_kernels, data_rows,
                               data_rows_copy, gen_i, pick_i, previous,
                               kernels, iterations, ri, kernel_followers,
                               kernel_follower_count, kernel_follower_sum,
                               prev_means>>

\* the loop is left: the working memory is freed, the assignment returned
KMeansReturn ==
    /\ pc = "loop"
    /\ UNCHANGED <<main_vars, calls_vars>>
    /\ ~LoopCondition
    /\ prev_means' = Unallocated
    /\ kernels' = Unallocated
    /\ kernel_follower_count' = Unallocated
    /\ kernel_follower_sum' = Unallocated
    /\ pc' = "done"
    /\ UNCHANGED <<k, n, m, generate_kernels, data_rows, data_rows_copy, gen_i,
                   pick_i, previous, movement, iterations, ri,
                   kernel_followers>>

Next ==
    \/ KMeansCall
    \/ PickDraw
    \/ GenerateSortDim
    \/ KMeansInit
    \/ LoopEnter
    \/ AssignRow
    \/ Update
    \/ UpdateMovement
    \/ KMeansReturn

Spec == Init /\ [][Next]_vars

TypeOK ==
    /\ pc \in {"call", "pick", "generate", "init", "loop", "assign", "update",
               "movement", "done", "aborted", "crashed", "parse", "exited"}
    /\ iterations \in Nat


\* ------------------------------------------------------------------ main
\* the most lines of an input
MaxLines == 2

\* data_row_cap at start (1024 in the source), small enough for the input
\* to outgrow it
InitialRowCap == 1

\* a field of a line: a number, text that is no number, or nothing at all
Num(v) == [kind |-> "num", val |-> v]

Bad == [kind |-> "bad", val |-> 0]

Empty == [kind |-> "empty", val |-> 0]

Fields == {Num(0), Num(Scale), Bad, Empty}

\* the lines scanf("%s") may deliver: one or two fields, never an empty line
Lines == {<<f>> : f \in Fields \ {Empty}} \cup {<<f, g>> : f, g \in Fields}

RECURSIVE InputsOfLength(_)
InputsOfLength(len) ==
    IF len = 0 THEN {<< >>}
    ELSE {Append(in, l) : in \in InputsOfLength(len - 1), l \in Lines}

Inputs == UNION {InputsOfLength(len) : len \in 0 .. MaxLines}

\* the column selections explored
ColumnSelections == {<<0>>, <<1>>, <<0, 1>>}

column_count == Len(columns)

\* a row of the dataset as malloc leaves it
FreshRow == [c \in 0 .. (column_count - 1) |-> Indeterminate]

\* the result of sscanf(line_pointer, "%lf", ...) with line_pointer at the
\* start of field f of line: 1 for a number, 0 for a matching failure, and
\* EOF when the string is empty, which is an empty last field
EOF == 0 - 1

sscanf(line, f) ==
    IF line[f + 1].kind = "num" THEN 1
    ELSE IF line[f + 1].kind = "empty" /\ f + 1 = Len(line) THEN EOF
    ELSE 0

RECURSIVE ParseColumns(_, _, _, _)
\* the loop of parse_data_row over the selected columns from the i-th on,
\* line_pointer being at field j: "kept" when the loop runs to its end,
\* "returned" and "failed" when it is left early
ParseColumns(line, i, j, row) ==
    IF i = column_count THEN [outcome |-> "kept", row |-> row]
    ELSE LET column == columns[i + 1]
             at == IF j < column THEN column ELSE j
         IN  \* strstr finds no further separator
             IF at > Len(line) - 1
             THEN [outcome |-> IF fail_on_errors THEN "failed" ELSE "returned",
                   row |-> row]
             ELSE LET res == sscanf(line, at)
                      stored == IF res = 1
                                THEN [row EXCEPT ![i] = line[at + 1].val]
                                ELSE row
                  IN  IF res = 0 /\ fail_on_errors
                      THEN [outcome |-> "failed", row |-> stored]
                      ELSE IF res = 0
                      THEN [outcome |-> "returned", row |-> stored]
                      ELSE ParseColumns(line, i + 1, at, stored)

\* main reads a line and calls parse_data_row on it
ParseDataRow ==
    /\ pc = "parse"
    /\ line_i < Len(lines)
    /\ LET line == lines[line_i + 1]
           grow == data_row_count = data_row_cap
           cap == IF grow THEN 2 * data_row_cap ELSE data_row_cap
           rows == [r \in 0 .. (cap - 1) |->
                      IF r < data_row_cap THEN data_rows[r] ELSE FreshRow]
           r == data_row_count
           parsed == ParseColumns(line, 0, 0, rows[r])
       IN  /\ data_row_cap' = cap
           /\ data_rows' = [rows EXCEPT ![r] = parsed.row]
           /\ data_row_count' = IF parsed.outcome = "kept" THEN r + 1 ELSE r
           /\ pc' = IF parsed.outcome = "failed" THEN "aborted" ELSE "parse"
           /\ line_i' = IF parsed.outcome = "failed" THEN line_i ELSE line_i + 1
    /\ UNCHANGED <<k, n, m, generate_kernels, data_rows_copy, gen_i, pick_i,
                   previous, kernels, movement, iterations, ri,
                   kernel_followers, kernel_follower_count,
                   kernel_follower_sum, prev_means, lines, fail_on_errors,
                   columns, printed, calls_vars>>

\* the datasets k_means may see in rows: a value that was never stored is
\* whatever the memory held
Readings(rows, count) ==
    {d \in [0 .. (count - 1) -> [0 .. (column_count - 1) -> Coords \cup GarbageVals]] :
        \A r \in 0 .. (count - 1) : \A c \in 0 .. (column_count - 1) :
            rows[r][c] # Indeterminate => d[r][c] = rows[r][c]}

\* the input has ended: trim_data_rows, then the call of k_means; with no
\* row kept, realloc to size 0 returns NULL and trim_data_rows fails
TrimAndCall ==
    /\ pc = "parse"
    /\ line_i = Len(lines)
    /\ IF data_row_count = 0
       THEN /\ Fail
            /\ UNCHANGED data_row_cap
       ELSE /\ data_rows' \in Readings(data_rows, data_row_count)
            /\ data_row_cap' = data_row_count
            /\ n' = data_row_count
            /\ m' = column_count
            /\ pc' = "call"
            /\ UNCHANGED <<k, generate_kernels, data_rows_copy, gen_i, pick_i,
                           previous, kernels, movement, iterations, ri,
                           kernel_followers, kernel_follower_count,
                           kernel_follower_sum, prev_means>>
    /\ UNCHANGED <<lines, line_i, fail_on_errors, columns, data_row_count,
                   printed, calls_vars>>

\* k_means has returned: main prints by_kernel[0 .. data_row_count - 1]
PrintClusters ==
    /\ pc = "done"
    /\ printed' = [i \in 1 .. data_row_count |-> kernel_followers[i - 1]]
    /\ pc' = "exited"
    /\ UNCHANGED <<k, n, m, generate_kernels, data_rows, data_rows_copy, gen_i,
                   pick_i, previous, kernels, movement, iterations, ri,
                   kernel_followers, kernel_follower_count,
                   kernel_follower_sum, prev_means, lines, line_i,
                   fail_on_errors, columns, data_row_count, data_row_cap,
                   calls_vars>>

\* main after parse_args and preallocate_data_rows
InitMain ==
    /\ pc = "parse"
    /\ lines \in Inputs
    /\ line_i = 0
    /\ fail_on_errors \in BOOLEAN
    /\ columns \in ColumnSelections
    /\ k \in {1, 2}
    /\ generate_kernels \in BOOLEAN
    /\ data_row_count = 0
    /\ data_row_cap = InitialRowCap
    /\ data_rows = [r \in 0 .. (InitialRowCap - 1) |->
                      [c \in 0 .. (Len(columns) - 1) |-> Indeterminate]]
    /\ printed = << >>
    /\ SingleCall
    /\ n = 0
    /\ m = 0
    /\ data_rows_copy = Unallocated
    /\ gen_i = 0
    /\ pick_i = 0
    /\ previous = Unallocated
    /\ kernels = Unallocated
    /\ movement = 0
    /\ iterations = 0
    /\ ri = 0
    /\ kernel_followers = Unallocated
    /\ kernel_follower_count = Unallocated
    /\ kernel_follower_sum = Unallocated
    /\ prev_means = Unallocated

NextMain ==
    \/ ParseDataRow
    \/ TrimAndCall
    \/ KMeansCall
    \/ PickDraw
    \/ GenerateSortDim
    \/ KMeansInit
    \/ LoopEnter
    \/ AssignRow
    \/ Update
    \/ UpdateMovement
    \/ KMeansReturn
    \/ PrintClusters

SpecMain == InitMain /\ [][NextMain]_vars

\* ------------------------------------------------------- two invocations
\* the most passes of the loop one invocation begins
MaxPasses == 2

\* the block a pointer at process scope points at
Target(a) == globals[a]

\* the blocks invocation c dereferences in the step it takes from
\* call_pc[c]: at "loop" the snapshot and the reset, or the frees after the
\* loop, touch the same three
Accessed(c) ==
    LET arrays == CASE call_pc[c] = "loop" ->
                          {"prev_means", "kernel_follower_count",
                           "kernel_follower_sum"}
                    [] call_pc[c] = "assign" ->
                          {"kernel_followers", "kernel_follower_count",
                           "kernel_follower_sum"}
                    [] call_pc[c] = "update" ->
                          {"kernel_follower_count", "kernel_follower_sum"}
                    [] call_pc[c] = "movement" -> {"prev_means"}
                    [] OTHER -> {}
    IN  {Target(a) : a \in arrays}

\* where invocation c is after a step that dereferences blocks: a block
\* that was freed makes the behaviour undefined, the step may end the process
After(c, blocks, next) ==
    IF \E b \in blocks : heap[b].status # "live"
    THEN {"crashed", next}
    ELSE {next}

\* the heap after invocation c has stored its values in blocks
Stored(c, blocks) ==
    [b \in Blocks |->
        IF b \in blocks /\ heap[b].status = "live"
        THEN [heap[b] EXCEPT !.holds = c]
        ELSE heap[b]]

\* k_means is entered: the four mallocs are assigned to the pointers at
\* process scope
CallMalloc(c) ==
    /\ call_pc[c] = "start"
    /\ globals' = [a \in Arrays |-> <<c, a>>]
    /\ heap' = [b \in Blocks |->
                  IF b[1] = c THEN [status |-> "live", holds |-> 0]
                  ELSE heap[b]]
    /\ call_pc' = [call_pc EXCEPT ![c] = "loop"]
    /\ UNCHANGED <<passes, returned, engine_vars, main_vars>>

\* the loop condition, then the snapshot and the reset; movement is
\* INFINITY before the first pass, later passes run or not as the values
\* found in the arrays decide
CallLoopEnter(c) ==
    /\ call_pc[c] = "loop"
    /\ passes[c] < MaxPasses
    /\ heap' = Stored(c, Accessed(c))
    /\ passes' = [passes EXCEPT ![c] = @ + 1]
    /\ \E to \in After(c, Accessed(c), "assign") :
           call_pc' = [call_pc EXCEPT ![c] = to]
    /\ UNCHANGED <<globals, returned, engine_vars, main_vars>>

\* the assignment step of all rows
CallAssign(c) ==
    /\ call_pc[c] = "assign"
    /\ heap' = Stored(c, Accessed(c))
    /\ \E to \in After(c, Accessed(c), "update") :
           call_pc' = [call_pc EXCEPT ![c] = to]
    /\ UNCHANGED <<passes, globals, returned, engine_vars, main_vars>>

\* the update step reads counts and sums and writes the kernels, which are
\* local to the invocation
CallUpdate(c) ==
    /\ call_pc[c] = "update"
    /\ \E to \in After(c, Accessed(c), "movement") :
           call_pc' = [call_pc EXCEPT ![c] = to]
    /\ UNCHANGED <<passes, globals, heap, returned, engine_vars, main_vars>>

\* movement is summed from prev_means and the kernels
CallMovement(c) ==
    /\ call_pc[c] = "movement"
    /\ \E to \in After(c, Accessed(c), "loop") :
           call_pc' = [call_pc EXCEPT ![c] = to]
    /\ UNCHANGED <<passes, globals, heap, returned, engine_vars, main_vars>>

\* the loop is left and the working arrays are freed; freeing a block twice
\* is undefined
CallFree(c) ==
    /\ call_pc[c] = "loop"
    /\ passes[c] >= 1
    /\ heap' = [b \in Blocks |->
                  IF b \in Accessed(c) THEN [heap[b] EXCEPT !.status = "freed"]
                  ELSE heap[b]]
    /\ \E to \in After(c, Accessed(c), "return") :
           call_pc' = [call_pc EXCEPT ![c] = to]
    /\ UNCHANGED <<passes, globals, returned, engine_vars, main_vars>>

\* return kernel_followers
CallReturn(c) ==
    /\ call_pc[c] = "return"
    /\ returned' = [returned EXCEPT ![c] = Target("kernel_followers")]
    /\ call_pc' = [call_pc EXCEPT ![c] = "returned"]
    /\ UNCHANGED <<passes, globals, heap, engine_vars, main_vars>>

\* two callers are about to call k_means
InitTwoCalls ==
    /\ call_pc = [c \in Invocations |-> "start"]
    /\ passes = [c \in Invocations |-> 0]
    /\ globals = [a \in Arrays |-> NULL]
    /\ heap = [b \in Blocks |-> [status |-> "unallocated", holds |-> 0]]
    /\ returned = [c \in Invocations |-> NULL]
    /\ pc = "calls"
    /\ k = 0
    /\ n = 0
    /\ m = 0
    /\ generate_kernels = FALSE
    /\ data_rows = Unallocated
    /\ data_rows_copy = Unallocated
    /\ gen_i = 0
    /\ pick_i = 0
    /\ previous = Unallocated
    /\ kernels = Unallocated
    /\ movement = 0
    /\ iterations = 0
    /\ ri = 0
    /\ kernel_followers = Unallocated
    /\ kernel_follower_count = Unallocated
    /\ kernel_follower_sum = Unallocated
    /\ prev_means = Unallocated
    /\ lines = << >>
    /\ line_i = 0
    /\ fail_on_errors = FALSE
    /\ columns = << >>
    /\ data_row_count = 0
    /\ data_row_cap = 0
    /\ printed = << >>

NextTwoCalls ==
    \E c \in Invocations :
        \/ CallMalloc(c)
        \/ CallLoopEnter(c)
        \/ CallAssign(c)
        \/ CallUpdate(c)
        \/ CallMovement(c)
        \/ CallFree(c)
        \/ CallReturn(c)

SpecTwoCalls == InitTwoCalls /\ [][NextTwoCalls]_vars

\* the invocations run one after the other
NextInTurn ==
    \E c \in Invocations :
        /\ \A d \in Invocations \ {c} : call_pc[d] \in {"start", "returned"}
        /\ \/ CallMalloc(c)
           \/ CallLoopEnter(c)
           \/ CallAssign(c)
           \/ CallUpdate(c)
           \/ CallMovement(c)
           \/ CallFree(c)
           \/ CallReturn(c)

SpecInTurn == InitTwoCalls /\ [][NextInTurn]_vars


\* ------------------------------------------------------------ properties
\* the input is one the engine is specified for
ValidInput == k <= n /\ DataFinite

\* the rows whose assignment of the current pass is kernel ki
FollowersOf(ki) == {r \in Rows : kernel_followers[r] = ki}

\* the distance of row r to kernel ki, as the engine measures it
RowDistance(r, ki) == distf64v(data_rows[r], kernels[ki], m).out

RECURSIVE SumOfRows(_, _)
\* the sum of column vi over the rows in S
SumOfRows(S, vi) ==
    IF S = {} THEN 0
    ELSE LET r == CHOOSE x \in S : TRUE
         IN  FAdd(data_rows[r][vi], SumOfRows(S \ {r}, vi))

RECURSIVE SumOfMoves(_)
\* the sum over the kernels in S of the distance from snapshot to kernel
SumOfMoves(S) ==
    IF S = {} THEN 0
    ELSE LET ki == CHOOSE x \in S : TRUE
         IN  FAdd(distf64v(prev_means[ki], kernels[ki], m).out,
                  SumOfMoves(S \ {ki}))

\* a pass of the loop has measured its movement
PassCompleted == pc = "loop" /\ kernel_follower_count # [ki \in Kernels |-> Indeterminate]

\* C1: on valid input, once the assignment step of a pass is through and
\* when k_means has returned, the assignment array has one entry per row
\* and every entry is a kernel index in 0 .. k-1.
C1_AssignmentInRange ==
    (ValidInput /\ (pc \in {"update", "movement", "done"} \/ PassCompleted))
        => /\ DOMAIN kernel_followers = Rows
           /\ \A r \in Rows : kernel_followers[r] \in Kernels

C1_Witness ==
    /\ pc = "done"
    /\ ValidInput
    /\ k >= 2
    /\ \A ki \in Kernels : FollowersOf(ki) # {}

\* C2: every pass of the loop raises the iteration counter by exactly one,
\* and the counter never exceeds the cap of 2500.
C2_IterationsIncrease ==
    [][/\ (pc = "movement" /\ pc' = "loop") => iterations' = iterations + 1
       /\ iterations' <= 2500]_vars

\* C3: a row that has been assigned in this pass follows a kernel at
\* minimal distance, and no kernel of lower index is at that distance.
C3_ClosestLowestIndex ==
    pc \in {"assign", "update"} =>
        \A r \in 0 .. (ri - 1) :
            LET a == kernel_followers[r]
            IN  /\ a \in Kernels
                /\ \A j \in Kernels :
                     /\ ~FLt(RowDistance(r, j), RowDistance(r, a))
                     /\ j < a => FLt(RowDistance(r, a), RowDistance(r, j))

C3_Witness ==
    /\ pc = "update"
    /\ \E r \in Rows : \E j \in Kernels :
         /\ kernel_followers[r] < j
         /\ kernels[j] # kernels[kernel_followers[r]]
         /\ RowDistance(r, j) = RowDistance(r, kernel_followers[r])
    /\ \E r \in Rows : kernel_followers[r] > 0

\* C4: after the update step a kernel without followers is, in every
\* dimension, what the snapshot of this pass holds for it, and the
\* movement measured for the pass is the sum of the moves of the kernels
\* that have followers.
C4_EmptyKernelKept ==
    /\ (pc = "movement" \/ PassCompleted) =>
          \A ki \in Kernels :
              kernel_follower_count[ki] = 0 => kernels[ki] = prev_means[ki]
    /\ PassCompleted =>
          movement = SumOfMoves({ki \in Kernels : kernel_follower_count[ki] > 0})

C4_Witness ==
    /\ PassCompleted
    /\ \E ki, kj \in Kernels :
         /\ kernel_follower_count[ki] = 0
         /\ \E vi \in Cols : kernels[ki][vi] # 0
         /\ kernel_follower_count[kj] > 0
         /\ kernels[kj] # prev_means[kj]

\* C5: after the update step a kernel with followers is, in every
\* dimension, the sum of that dimension over the rows assigned to it in
\* this pass, divided by their number.
C5_MeanOfFollowers ==
    (pc = "movement" \/ PassCompleted) =>
        \A ki \in Kernels :
            LET c == Cardinality(FollowersOf(ki))
            IN  c > 0 =>
                    \A vi \in Cols :
                        LET sum == SumOfRows(FollowersOf(ki), vi)
                        IN  IF IsFinite(sum)
                            THEN kernels[ki][vi] * c = sum
                            ELSE kernels[ki][vi] = sum

C5_Witness ==
    /\ pc = "movement"
    /\ \E ki \in Kernels :
         /\ Cardinality(FollowersOf(ki)) >= 2
         /\ Cardinality(FollowersOf(ki)) < n
         /\ kernels[ki] # prev_means[ki]


\* C6: with k <= n, random sampling never crashes, accepts only row indices
\* in 0 .. n-1, each at most once, and returns kernels that are copies of k
\* pairwise distinct rows.
C6_RandomKernelsAreRows ==
    (~generate_kernels /\ k <= n) =>
        /\ pc # "crashed"
        /\ pc = "pick" =>
             /\ \A j \in DOMAIN previous : previous[j] \in Rows
             /\ \A i, j \in DOMAIN previous : i # j => previous[i] # previous[j]
        /\ pc = "init" =>
             \E f \in [Kernels -> Rows] :
                 /\ \A i, j \in Kernels : i # j => f[i] # f[j]
                 /\ \A i \in Kernels : kernels[i] = data_rows[f[i]]

\* C7: with random sampling and k > n the run fails at once: it is never
\* inside the sampling loop, nor anywhere past it.
C7_NoSamplingWhenKExceedsN ==
    (~generate_kernels /\ k > n) => pc \in {"call", "aborted"}

\* C8: no step of the engine changes the caller's dataset: every row stays
\* at its position with its values.
C8_DatasetUnchanged == [][data_rows' = data_rows]_vars

C8_Witness ==
    /\ pc = "done"
    /\ generate_kernels
    /\ \E a, b \in Rows : a < b /\ FLt(data_rows[b][0], data_rows[a][0])
    /\ \E r \in Rows : kernel_followers[r] > 0

\* the pivot of kernel i: the integer part of i / k * n
PivotOf(i) == (i * n) \div k

\* v is the element at position p of column d sorted ascending
IsOrderStatistic(v, d, p) ==
    /\ Cardinality({r \in Rows : data_rows[r][d] < v}) <= p
    /\ p < Cardinality({r \in Rows : data_rows[r][d] <= v})

AssignFails ==
    pc = "assign" /\ \E ki \in Kernels : distf64v(data_rows[ri], kernels[ki], m).failed

MovementFails ==
    pc = "movement" /\ \E ki \in Kernels : distf64v(prev_means[ki], kernels[ki], m).failed

\* a step of a run that aborts on an ill-defined distance and on nothing else
DistanceFailureAborts ==
    /\ (AssignFails \/ MovementFails) =>
          /\ pc' = "aborted"
          /\ kernel_followers' = kernel_followers
          /\ ri' = ri
    /\ pc' = "aborted" => (AssignFails \/ MovementFails)
    /\ pc # "aborted"
    /\ pc # "done"
    /\ pc' = "done" =>
          /\ DOMAIN kernel_followers' = Rows
          /\ \A r \in Rows : kernel_followers'[r] \in Kernels

\* C10: a run aborts exactly where a distance computation is ill-defined,
\* without taking a later step or skipping the row, and returns a complete
\* assignment otherwise; it ends in no other way.
C10_AbortOrCompleteAssignment ==
    [][DistanceFailureAborts /\ pc' # "crashed"]_vars

\* the part of C10 that is about the distance failures alone
C10_DistanceFailurePart == [][DistanceFailureAborts]_vars

\* the current assignment array holds a kernel index for every row
AssignmentComplete ==
    /\ pc \in {"assign", "update", "movement", "loop"}
    /\ \A r \in Rows : kernel_followers[r] \in Kernels

RECURSIVE InertiaOfRows(_)
\* the sum, over the rows below i, of the squared distance of the row to
\* the kernel the assignment array names for it (the two terms are
\* evaluated once each before they are added)
InertiaOfRows(i) ==
    IF i = 0 THEN 0
    ELSE CHOOSE sum \in
             {FAdd(rest, own) :
                 rest \in {InertiaOfRows(i - 1)},
                 own \in {SumSquares(data_rows[i - 1],
                                     kernels[kernel_followers[i - 1]], m)}} : TRUE

\* the within-cluster sum of squared distances; where the assignment step
\* of a pass has just ended (pc = "update") it is the inertia of that pass,
\* measured against the kernels the rows were assigned with
Inertia == InertiaOfRows(n)

\* C11: on finite data the inertia of a pass is never above that of the pass
\* before it.  Between the two measurements the engine updates the kernels
\* (a kernel without followers staying put) and then reassigns the rows one
\* by one; none of these steps raises the sum, so the inertia at the end of
\* one assignment step is at most the inertia at the end of the previous one.
C11_InertiaNeverIncreases ==
    [][(DataFinite /\ AssignmentComplete /\ AssignmentComplete')
          => \A before \in {Inertia}, after \in {Inertia'} :
                 ~FLt(before, after)]_vars

C11_Witness ==
    /\ pc = "update"
    /\ DataFinite
    /\ IsFinite(movement)
    /\ \E ki \in Kernels : kernel_follower_count[ki] = 0
    /\ \E r \in Rows : RowDistance(r, kernel_followers[r]) # 0
    /\ \E ki \in Kernels : kernel_follower_count[ki] >= 2

\* the pass in progress started from one kernel per row: k = n, the rows are
\* finite and pairwise distinct, and the snapshot of the pass holds k
\* pairwise distinct kernels, each a copy of a row
OneKernelPerRow ==
    /\ pc \in {"update", "movement", "loop"}
    /\ DOMAIN prev_means = Kernels
    /\ k = n
    /\ DataFinite
    /\ \A r, q \in Rows : r # q => data_rows[r] # data_rows[q]
    /\ \A i, j \in Kernels : i # j => prev_means[i] # prev_means[j]
    /\ \A i \in Kernels : \E r \in Rows : prev_means[i] = data_rows[r]

\* what C12 says of the states of such a pass
SingletonClusters ==
    /\ \A r \in Rows :
         /\ kernel_followers[r] \in Kernels
         /\ prev_means[kernel_followers[r]] = data_rows[r]
    /\ \A ki \in Kernels : kernel_follower_count[ki] = 1
    /\ pc \in {"movement", "loop"} => kernels = prev_means
    /\ pc = "loop" => movement = 0

\* C12: a pass that starts with k = n kernels that are copies of the n
\* pairwise distinct rows (the first pass, when the initialiser returned
\* such kernels) assigns every row to the kernel that is its copy, so every
\* follower count is 1; the update moves no kernel; the movement measured
\* is 0 and the next step of the run is its return.
C12_OneKernelPerRowConverges ==
    /\ [](OneKernelPerRow => SingletonClusters)
    /\ [][(OneKernelPerRow /\ pc = "loop") => pc' = "done"]_vars

C12_Witness ==
    /\ OneKernelPerRow
    /\ pc = "loop"
    /\ n >= 3
    /\ ~generate_kernels
    /\ kernel_followers[0] # 0

\* every selected column of the line exists and holds a number
WellFormed(line) ==
    \A i \in 1 .. column_count :
        /\ columns[i] < Len(line)
        /\ line[columns[i] + 1].kind = "num"

\* the row a well-formed line stands for
RowOf(line) == [c \in 0 .. (column_count - 1) |-> line[columns[c + 1] + 1].val]

\* the well-formed lines among the first i lines of the input, in order
KeptOf(i) == SelectSeq(SubSeq(lines, 1, i), WellFormed)

\* C13: while main reads its input, the dataset holds exactly the rows of
\* the well-formed lines read so far, in input order, and data_row_count
\* is at most data_row_cap; with -e no malformed line has been read past;
\* the program aborts in parse_data_row only with -e and on a malformed
\* line; and at exit one cluster id was printed per well-formed line.
C13_MalformedLinesDiscarded ==
    /\ pc = "parse" =>
          /\ data_row_count = Len(KeptOf(line_i))
          /\ \A r \in 1 .. Len(KeptOf(line_i)) :
                 data_rows[r - 1] = RowOf(KeptOf(line_i)[r])
          /\ data_row_count <= data_row_cap
          /\ fail_on_errors => Len(KeptOf(line_i)) = line_i
    /\ (pc = "aborted" /\ line_i < Len(lines)) =>
          /\ fail_on_errors
          /\ ~WellFormed(lines[line_i + 1])
    /\ pc = "exited" => Len(printed) = Len(KeptOf(Len(lines)))

\* invocation c takes a step
Acts(c) == call_pc'[c] # call_pc[c]

\* C14: no step of an invocation dereferences a block that the other
\* invocation allocated or that was returned to the other's caller, and
\* the array an invocation returns is one it allocated itself.
C14_WorkingStateExclusive ==
    [][\A c \in Invocations :
          Acts(c) =>
              /\ \A b \in Accessed(c) :
                     /\ b[1] = c
                     /\ \A d \in Invocations \ {c} : returned[d] # b
              /\ returned'[c] # NULL => returned'[c][1] = c]_vars

\* the rows the accumulators of kernel ki have taken in: during the
\* assignment step the rows already assigned in this pass, afterwards all
\* rows assigned to ki
CountedRows(ki) ==
    IF pc = "assign"
    THEN {r \in Rows : r < ri /\ kernel_followers[r] = ki}
    ELSE FollowersOf(ki)

RECURSIVE SumOfCounts(_)
\* the sum of the follower counts of the kernels in S
SumOfCounts(S) ==
    IF S = {} THEN 0
    ELSE LET ki == CHOOSE x \in S : TRUE
         IN  kernel_follower_count[ki] + SumOfCounts(S \ {ki})

\* a pass of the loop is under way or has just ended
InPass == pc \in {"assign", "update", "movement"} \/ PassCompleted

\* C15: in every pass the follower count of a kernel is the number of rows
\* assigned to it in this pass and its sum is the element-wise sum of
\* exactly those rows (nothing carried over), after the assignment step the
\* counts add up to n, the snapshot equals the kernels until the update
\* and is left alone by update and movement, and the movement of a
\* completed pass is the sum of the distances from snapshot to kernel.
C15_AccumulatorsOfThisPass ==
    /\ [](InPass =>
            \A ki \in Kernels :
                /\ kernel_follower_count[ki] = Cardinality(CountedRows(ki))
                /\ \A vi \in Cols :
                       kernel_follower_sum[ki][vi] = SumOfRows(CountedRows(ki), vi))
    /\ []((InPass /\ pc # "assign") => SumOfCounts(Kernels) = n)
    /\ [](pc \in {"assign", "update"} => prev_means = kernels)
    /\ [][/\ pc \in {"update", "movement"} => prev_means' = prev_means
          /\ pc \in {"assign", "movement"} => kernels' = kernels]_vars
    /\ [](PassCompleted => movement = SumOfMoves(Kernels))

\* a later pass has counted its rows, with a kernel of two followers and a
\* kernel that moved in the pass before
C15_Witness ==
    /\ pc = "update"
    /\ IsFinite(movement)
    /\ movement > 0
    /\ k >= 2
    /\ \E ki \in Kernels : kernel_follower_count[ki] >= 2
    /\ \E ki \in Kernels : kernel_follower_count[ki] = 1

====
